---- MODULE Spec2Model ----
(***************************************************************************)
(* Receipt extraction and classification core of the grocery tracker       *)
(* backend: ItemCategorizer (categorizer.py), ReceiptProcessor             *)
(* (receipt_processor.py) and EmailReceiptParser (email_parser.py).        *)
(*                                                                         *)
(* Text is a TLA+ string (a sequence of characters); positions are         *)
(* 1-based.  Regular expressions are written token by token and run by a   *)
(* backtracking matcher with Python's priorities (greedy / lazy            *)
(* quantifiers, ordered alternation, leftmost search).  Amounts are exact  *)
(* rationals in cents: float rounding (below 1e-9 of a cent) is left out.  *)
(***************************************************************************)
EXTENDS Integers, Sequences, FiniteSets, TLC

VARIABLES
    pc,         \* which call has returned: "ready" before any call
    item_name,  \* argument of categorize_item / _clean_item_name
    category,   \* value returned by categorize_item
    cleaned,    \* values returned by the two _clean_item_name methods
    text,       \* the decoded document text (scan text or email body)
    subject,    \* email Subject header
    sender,     \* email From header
    result,     \* the value returned by the extractor that was called
    processors, \* the attributes of the processor objects create_app shares
    requests,   \* the calls in progress on the shared objects, by thread
    uploads,    \* the upload folder: the bytes stored under each path
    clock,      \* datetime.now(), in seconds
    db,         \* the database: committed rows, the open write transaction
    handlers    \* the upload and delete requests in progress, by handler

vars == <<pc, item_name, category, cleaned, text, subject, sender, result,
          processors, requests, uploads, clock, db, handlers>>

\* what the upload and delete handlers work on
storage == <<uploads, clock, db, handlers>>

\* the state of the application around the extraction core
server == <<processors, requests, storage>>

----------------------------------------------------------------------------
(* Characters *)

Digit == {"0", "1", "2", "3", "4", "5", "6", "7", "8", "9"}

LowerLetter == {"a", "b", "c", "d", "e", "f", "g", "h", "i", "j", "k", "l", "m",
                "n", "o", "p", "q", "r", "s", "t", "u", "v", "w", "x", "y", "z"}

LowerOf == [A |-> "a", B |-> "b", C |-> "c", D |-> "d", E |-> "e", F |-> "f",
            G |-> "g", H |-> "h", I |-> "i", J |-> "j", K |-> "k", L |-> "l",
            M |-> "m", N |-> "n", O |-> "o", P |-> "p", Q |-> "q", R |-> "r",
            S |-> "s", T |-> "t", U |-> "u", V |-> "v", W |-> "w", X |-> "x",
            Y |-> "y", Z |-> "z"]

UpperOf == [a |-> "A", b |-> "B", c |-> "C", d |-> "D", e |-> "E", f |-> "F",
            g |-> "G", h |-> "H", i |-> "I", j |-> "J", k |-> "K", l |-> "L",
            m |-> "M", n |-> "N", o |-> "O", p |-> "P", q |-> "Q", r |-> "R",
            s |-> "S", t |-> "T", u |-> "U", v |-> "V", w |-> "W", x |-> "X",
            y |-> "Y", z |-> "Z"]

UpperLetter == DOMAIN LowerOf

Letter == LowerLetter \cup UpperLetter

\* \w of a str pattern: letters, digits and the underscore
Word == Letter \cup Digit \cup {"_"}

\* \s
Space == {" ", "\n", "\t"}

CharAt(s, i) == SubSeq(s, i, i)

LowerChar(c) == IF c \in UpperLetter THEN LowerOf[c] ELSE c

UpperChar(c) == IF c \in LowerLetter THEN UpperOf[c] ELSE c

RECURSIVE LowerFrom(_, _)
LowerFrom(s, i) ==
    IF i > Len(s) THEN "" ELSE LowerChar(CharAt(s, i)) \o LowerFrom(s, i + 1)

\* str.lower()
Lower(s) == LowerFrom(s, 1)

RECURSIVE TitleFrom(_, _)
TitleFrom(s, i) ==
    IF i > Len(s) THEN ""
    ELSE LET c == CharAt(s, i)
             prevCased == i > 1 /\ CharAt(s, i - 1) \in Letter
         IN (IF prevCased THEN LowerChar(c) ELSE UpperChar(c)) \o TitleFrom(s, i + 1)

\* str.title(): a letter that follows a letter is lowercased, any other letter
\* is uppercased
Title(s) == TitleFrom(s, 1)

RECURSIVE StripLeft(_, _)
StripLeft(s, i) ==
    IF i <= Len(s) /\ CharAt(s, i) \in Space THEN StripLeft(s, i + 1) ELSE i

RECURSIVE StripRight(_, _)
StripRight(s, j) ==
    IF j >= 1 /\ CharAt(s, j) \in Space THEN StripRight(s, j - 1) ELSE j

\* str.strip()
Strip(s) == SubSeq(s, StripLeft(s, 1), StripRight(s, Len(s)))

----------------------------------------------------------------------------
(* Regular expressions (module re) *)

\* one character of the set S (or outside it), repeated lo..hi times
Rep(S, lo, hi)  == [k |-> "set", of |-> S, neg |-> FALSE, min |-> lo, max |-> hi, unb |-> FALSE, lazy |-> FALSE]
One(S)          == Rep(S, 1, 1)
Opt(S)          == Rep(S, 0, 1)
\* x{lo,}
AtLeast(S, lo)  == [k |-> "set", of |-> S, neg |-> FALSE, min |-> lo, max |-> 0, unb |-> TRUE, lazy |-> FALSE]
Star(S)         == AtLeast(S, 0)
Plus(S)         == AtLeast(S, 1)
Not(t)          == [t EXCEPT !.neg = TRUE]
Lazy(t)         == [t EXCEPT !.lazy = TRUE]
\* . (any character but the newline)
Dot             == Not(One({"\n"}))
\* ( and ) of capturing group g
Open(g)         == [k |-> "open", g |-> g]
Close(g)        == [k |-> "close", g |-> g]
\* (?:a|b|...), the alternatives tried in order
Alt(alts)       == [k |-> "alt", alts |-> alts]
\* \b, ^ and $
WB              == [k |-> "wb"]
BOS             == [k |-> "bos"]
EOS             == [k |-> "eos"]
\* the characters of w, literally
Lit(w)          == [i \in 1..Len(w) |-> One({CharAt(w, i)})]

NoCaps == [g \in 1..4 |-> <<0, 0>>]

NoMatch == [ok |-> FALSE, start |-> 0, end |-> 0, caps |-> NoCaps]

CharIn(c, t, ic) ==
    LET cc == IF ic THEN LowerChar(c) ELSE c
    IN (cc \in t.of) # t.neg

RECURSIVE RunLen(_, _, _, _, _)
\* how many characters from position i on match token t, n counted so far
RunLen(t, s, i, ic, n) ==
    IF (~t.unb /\ n >= t.max) \/ i + n > Len(s) THEN n
    ELSE IF CharIn(CharAt(s, i + n), t, ic) THEN RunLen(t, s, i, ic, n + 1)
    ELSE n

IsWordAt(s, i) == i >= 1 /\ i <= Len(s) /\ CharAt(s, i) \in Word

RECURSIVE MatchHere(_, _, _, _, _)
RECURSIVE TryCounts(_, _, _, _, _, _, _, _)
RECURSIVE TryAlts(_, _, _, _, _, _, _)

\* match the tokens toks at position i: the first success in backtracking order
MatchHere(toks, s, i, caps, ic) ==
    IF toks = <<>> THEN [ok |-> TRUE, start |-> 0, end |-> i, caps |-> caps]
    ELSE LET t == Head(toks)
             rest == Tail(toks)
         IN CASE t.k = "set" ->
                    LET run == RunLen(t, s, i, ic, 0)
                    IN IF run < t.min THEN NoMatch
                       ELSE IF t.lazy THEN TryCounts(rest, s, i, caps, ic, t.min, run, 1)
                       ELSE TryCounts(rest, s, i, caps, ic, run, t.min, -1)
              [] t.k = "open" ->
                    MatchHere(rest, s, i, [caps EXCEPT ![t.g] = <<i, 0>>], ic)
              [] t.k = "close" ->
                    MatchHere(rest, s, i, [caps EXCEPT ![t.g] = <<caps[t.g][1], i>>], ic)
              [] t.k = "alt" ->
                    TryAlts(t.alts, rest, s, i, caps, ic, 1)
              [] t.k = "wb" ->
                    IF IsWordAt(s, i - 1) # IsWordAt(s, i)
                    THEN MatchHere(rest, s, i, caps, ic) ELSE NoMatch
              [] t.k = "bos" ->
                    IF i = 1 THEN MatchHere(rest, s, i, caps, ic) ELSE NoMatch
              [] t.k = "eos" ->
                    IF i = Len(s) + 1 \/ (i = Len(s) /\ CharAt(s, i) = "\n")
                    THEN MatchHere(rest, s, i, caps, ic) ELSE NoMatch

\* the repetition counts n, n + step, ..., last of a quantifier, in order
TryCounts(rest, s, i, caps, ic, n, last, step) ==
    LET r == MatchHere(rest, s, i + n, caps, ic)
    IN IF r.ok THEN r
       ELSE IF n = last THEN NoMatch
       ELSE TryCounts(rest, s, i, caps, ic, n + step, last, step)

\* the alternatives of a group, in order
TryAlts(alts, rest, s, i, caps, ic, a) ==
    IF a > Len(alts) THEN NoMatch
    ELSE LET r == MatchHere(alts[a] \o rest, s, i, caps, ic)
         IN IF r.ok THEN r ELSE TryAlts(alts, rest, s, i, caps, ic, a + 1)

RECURSIVE SearchFrom(_, _, _, _)
\* re.search: the match at the leftmost position from i on
SearchFrom(re, s, i, ic) ==
    IF i > Len(s) + 1 THEN NoMatch
    ELSE LET r == MatchHere(re, s, i, NoCaps, ic)
         IN IF r.ok THEN [r EXCEPT !.start = i] ELSE SearchFrom(re, s, i + 1, ic)

Search(re, s) == SearchFrom(re, s, 1, FALSE)

SearchI(re, s) == SearchFrom(re, s, 1, TRUE)

\* match.group(g), "" standing for None
Group(m, s, g) ==
    IF m.caps[g][2] = 0 THEN "" ELSE SubSeq(s, m.caps[g][1], m.caps[g][2] - 1)

RECURSIVE SubFrom(_, _, _, _, _)
\* re.sub(re, repl, s): every non-overlapping match replaced, left to right
SubFrom(re, repl, s, i, ic) ==
    LET m == SearchFrom(re, s, i, ic)
    IN IF ~m.ok THEN SubSeq(s, i, Len(s))
       ELSE IF m.end = m.start
            THEN SubSeq(s, i, m.start - 1) \o repl \o
                 (IF m.start > Len(s) THEN ""
                  ELSE CharAt(s, m.start) \o SubFrom(re, repl, s, m.start + 1, ic))
       ELSE SubSeq(s, i, m.start - 1) \o repl \o SubFrom(re, repl, s, m.end, ic)

Sub(re, repl, s) == SubFrom(re, repl, s, 1, FALSE)

SubI(re, repl, s) == SubFrom(re, repl, s, 1, TRUE)

----------------------------------------------------------------------------
(* ItemCategorizer (categorizer.py) *)

\* self.categories, in declaration order (the colors are left out)
categories == <<
    [name |-> "Produce", keywords |-> <<
        "apple", "banana", "orange", "grape", "berry", "strawberry",
        "lettuce", "tomato", "potato", "onion", "carrot", "broccoli",
        "spinach", "celery", "pepper", "avocado", "cucumber", "fruit",
        "vegetable", "salad", "melon", "peach", "pear", "plum", "mango",
        "pineapple", "kale", "cabbage", "squash", "zucchini", "corn">>],
    [name |-> "Meat & Seafood", keywords |-> <<
        "chicken", "beef", "pork", "turkey", "fish", "salmon", "tuna",
        "shrimp", "meat", "steak", "ground", "bacon", "sausage", "ham",
        "lamb", "tilapia", "cod", "ribeye", "sirloin", "brisket">>],
    [name |-> "Dairy & Eggs", keywords |-> <<
        "milk", "cheese", "yogurt", "butter", "cream", "egg",
        "sour cream", "cottage", "cheddar", "mozzarella", "parmesan",
        "ice cream", "whipped", "half and half", "dairy">>],
    [name |-> "Bakery & Bread", keywords |-> <<
        "bread", "bagel", "roll", "bun", "baguette", "croissant",
        "muffin", "donut", "cake", "cookie", "pastry", "tortilla",
        "wrap", "pita", "bakery">>],
    [name |-> "Pantry & Canned", keywords |-> <<
        "pasta", "rice", "bean", "sauce", "soup", "cereal", "oats",
        "flour", "sugar", "salt", "pepper", "spice", "oil", "vinegar",
        "can", "canned", "jar", "box", "bag", "chips", "crackers",
        "peanut butter", "jelly", "jam", "honey", "syrup">>],
    [name |-> "Beverages", keywords |-> <<
        "water", "juice", "soda", "coffee", "tea", "beer", "wine",
        "alcohol", "drink", "beverage", "lemonade", "cola", "sprite",
        "energy drink", "sports drink", "smoothie">>],
    [name |-> "Frozen", keywords |-> <<
        "frozen", "ice", "pizza", "freezer", "popsicle", "ice cream">>],
    [name |-> "Snacks & Sweets", keywords |-> <<
        "candy", "chocolate", "snack", "chip", "popcorn", "pretzel",
        "cracker", "granola", "bar", "gum", "mint", "cookie">>],
    [name |-> "Condiments & Sauces", keywords |-> <<
        "ketchup", "mustard", "mayo", "mayonnaise", "dressing",
        "salsa", "hot sauce", "bbq", "marinade", "soy sauce",
        "worcestershire", "relish", "pickle">>],
    [name |-> "Other", keywords |-> <<>>] >>

\* the keyword searched for as a plain substring, the word boundaries forgotten
KeywordHit_Substring(keyword, item_lower) ==
    Search(Lit(keyword), item_lower).ok

\* pattern = r'\b' + re.escape(keyword) + r'\b'; re.search(pattern, item_lower)
KeywordHit(keyword, item_lower) ==
    Search(<<WB>> \o Lit(keyword) \o <<WB>>, item_lower).ok

RECURSIVE KeywordLoop(_, _, _)
\* for keyword in data['keywords']: the loop from the k-th keyword on
KeywordLoop(keywords, item_lower, k) ==
    IF k > Len(keywords) THEN FALSE
    ELSE IF KeywordHit(keywords[k], item_lower) THEN TRUE
    ELSE KeywordLoop(keywords, item_lower, k + 1)

RECURSIVE CategoryLoop_LastWins(_, _)
\* the loop over the categories keeping the last category hit, not the first
CategoryLoop_LastWins(item_lower, c) ==
    IF c > Len(categories) THEN "Other"
    ELSE LET later == CategoryLoop_LastWins(item_lower, c + 1)
         IN IF later # "Other" THEN later
            ELSE IF KeywordLoop(categories[c].keywords, item_lower, 1)
                 THEN categories[c].name
            ELSE "Other"

RECURSIVE CategoryLoop(_, _)
\* for category, data in self.categories.items(): the loop from the c-th on
CategoryLoop(item_lower, c) ==
    IF c > Len(categories) THEN "Other"
    ELSE IF categories[c].name = "Other" THEN CategoryLoop(item_lower, c + 1)
    ELSE IF KeywordLoop(categories[c].keywords, item_lower, 1) THEN categories[c].name
    ELSE CategoryLoop(item_lower, c + 1)

categorize_item(name) ==
    IF name = "" THEN "Other" ELSE CategoryLoop(Lower(name), 1)

----------------------------------------------------------------------------
(* Numbers *)

DigitValue(c) == CHOOSE n \in 0..9 : CharAt("0123456789", n + 1) = c

RECURSIVE ParseInt(_)
\* int / float of a string of digits
ParseInt(d) ==
    IF d = "" THEN 0
    ELSE 10 * ParseInt(SubSeq(d, 1, Len(d) - 1)) + DigitValue(CharAt(d, Len(d)))

\* an amount: the rational num / den, in cents
Amount(n, d) == [num |-> n, den |-> d]

\* float('<digits>.<two digits>'), in cents
ParseAmount(a) ==
    Amount(100 * ParseInt(SubSeq(a, 1, Len(a) - 3)) + ParseInt(SubSeq(a, Len(a) - 1, Len(a))), 1)

\* \d+\.\d{2}
AmountRe == <<Plus(Digit), One({"."}), Rep(Digit, 2, 2)>>

----------------------------------------------------------------------------
(* Lines *)

RECURSIVE SplitFrom(_, _, _)
\* s.split('\n'): i is where the current piece starts, j the position looked at
SplitFrom(s, i, j) ==
    IF j > Len(s) THEN <<SubSeq(s, i, Len(s))>>
    ELSE IF CharAt(s, j) = "\n"
         THEN <<SubSeq(s, i, j - 1)>> \o SplitFrom(s, j + 1, j + 1)
    ELSE SplitFrom(s, i, j + 1)

SplitLines(s) == SplitFrom(s, 1, 1)

\* sub in s
Contains(sub, s) ==
    \E i \in 1..(Len(s) - Len(sub) + 1) : SubSeq(s, i, i + Len(sub) - 1) = sub

\* the skip-list looked up in the line as written, not in line.lower()
AnySkip_CaseSensitive(skips, line) ==
    \E k \in 1..Len(skips) : Contains(skips[k], line)

\* any(skip in line.lower() for skip in skips)
AnySkip(skips, line) ==
    LET line_lower == Lower(line)
    IN \E k \in 1..Len(skips) : Contains(skips[k], line_lower)

\* the value of a call: what it returned, or the exception it raised
Returned(v) == [raised |-> "", value |-> v]

Raised(e) == [raised |-> e, value |-> <<>>]

----------------------------------------------------------------------------
(* ReceiptProcessor (receipt_processor.py): line items *)

scan_skips == <<"total", "subtotal", "tax", "balance",
                "payment", "change", "visa", "mastercard",
                "cash", "credit", "debit", "***", "---",
                "thank you", "receipt", "store", "date">>

\* r'[\$]?\s*(\d+\.\d{2})\s*$'
price_pattern ==
    <<Opt({"$"}), Star(Space), Open(1)>> \o AmountRe \o <<Close(1), Star(Space), EOS>>

\* r'(\d+)\s*@\s*[\$]?(\d+\.\d{2})'
quantity_pattern ==
    <<Open(1), Plus(Digit), Close(1), Star(Space), One({"@"}), Star(Space), Opt({"$"}),
      Open(2)>> \o AmountRe \o <<Close(2)>>

\* ReceiptProcessor._clean_item_name
scan_clean_item_name(name) ==
    Title(Strip(Sub(<<Not(One(Word \cup Space \cup {"-"}))>>, "",
                    Sub(<<Plus(Space)>>, " ", name))))

\* the item of a line quantity_pattern matched, kept when the rest of the line
\* is longer than two characters; total_price = quantity * unit_price
scan_quantity_item(quantity, unit_price, name) ==
    IF name # "" /\ Len(name) > 2
    THEN <<[name |-> scan_clean_item_name(name), quantity |-> quantity,
            unit_price |-> unit_price,
            total_price |-> Amount(quantity * unit_price.num, unit_price.den)]>>
    ELSE <<>>

\* the item of a line price_pattern matched, kept when the rest of the line is
\* longer than two characters and price > 0
scan_price_item(price, name) ==
    IF name # "" /\ Len(name) > 2 /\ price.num > 0
    THEN <<[name |-> scan_clean_item_name(name), quantity |-> 1,
            unit_price |-> price, total_price |-> price]>>
    ELSE <<>>

\* the simple price branch: price_match = re.search(price_pattern, line)
price_branch(line, price_match) ==
    IF price_match.ok
    THEN scan_price_item(ParseAmount(Group(price_match, line, 1)),
                         Strip(Sub(price_pattern, "", line)))
    ELSE <<>>

\* qty_match = re.search(quantity_pattern, line), the simple price pattern
\* tried when it fails
quantity_branch(line, qty_match) ==
    IF qty_match.ok
    THEN scan_quantity_item(ParseInt(Group(qty_match, line, 1)),
                            ParseAmount(Group(qty_match, line, 2)),
                            Strip(Sub(quantity_pattern, "", line)))
    ELSE price_branch(line, Search(price_pattern, line))

\* the body of the loop of _extract_items: the items one line adds
scan_line_items(line) ==
    IF AnySkip(scan_skips, line) THEN <<>>
    ELSE quantity_branch(line, Search(quantity_pattern, line))

RECURSIVE scan_extract_from(_, _)
scan_extract_from(lines, l) ==
    IF l > Len(lines) THEN <<>>
    ELSE scan_line_items(lines[l]) \o scan_extract_from(lines, l + 1)

\* ReceiptProcessor._extract_items
scan_extract_items(lines) == scan_extract_from(lines, 1)

\* lines = [line.strip() for line in text.split('\n') if line.strip()]
scan_lines(t) ==
    LET stripped == [l \in 1..Len(SplitLines(t)) |-> Strip(SplitLines(t)[l])]
    IN SelectSeq(stripped, LAMBDA line : line # "")

----------------------------------------------------------------------------
(* EmailReceiptParser (email_parser.py): line items *)

email_skips == <<"order summary", "subtotal", "total",
                 "tax", "shipping", "delivery",
                 "payment", "thank you", "questions",
                 "customer service", "***", "---",
                 "visit us", "follow us">>

\* r'(\d+)\s*x\s*(.+?)(?:@\s*[\$]?(\d+\.\d{2}))?\s*[\$]?\s*(\d+\.\d{2})'
pattern1 ==
    <<Open(1), Plus(Digit), Close(1), Star(Space), One({"x"}), Star(Space),
      Open(2), Lazy(Not(Plus({"\n"}))), Close(2),
      Alt(<< <<One({"@"}), Star(Space), Opt({"$"}), Open(3)>> \o AmountRe \o <<Close(3)>>,
             <<>> >>),
      Star(Space), Opt({"$"}), Star(Space), Open(4)>> \o AmountRe \o <<Close(4)>>

\* r'(.+?)[\s]{2,}[\$]?\s*(\d+\.\d{2})\s*$'
pattern2 ==
    <<Open(1), Lazy(Not(Plus({"\n"}))), Close(1), AtLeast(Space, 2), Opt({"$"}),
      Star(Space), Open(2)>> \o AmountRe \o <<Close(2), Star(Space), EOS>>

\* EmailReceiptParser._clean_item_name
email_clean_item_name(name) ==
    Title(Strip(
        SubI(<<Star(Space), Open(1),
               Alt(<<Lit("ea"), Lit("each"), Lit("lb"), Lit("oz"), Lit("kg"), Lit("g")>>),
               Close(1), Star(Space), EOS>>, "",
             Sub(<<BOS, Plus(Digit), Star(Space)>>, "",
                 Sub(<<Plus(Space)>>, " ", name)))))

\* unit_price = float(match.group(3)) if match.group(3) else 0
captured_unit_price(group3) ==
    IF group3 # "" THEN ParseAmount(group3) ELSE Amount(0, 1)

\* the item of a line pattern1 matched: a unit price of 0 is replaced by
\* total_price / quantity, which raises when quantity is 0
pattern1_item(quantity, name, captured, total_price) ==
    IF captured.num = 0 /\ quantity = 0
    THEN Raised("ZeroDivisionError")
    ELSE Returned(<<[name |-> email_clean_item_name(name),
                     quantity |-> quantity,
                     unit_price |-> IF captured.num = 0
                                    THEN Amount(total_price.num, quantity)
                                    ELSE captured,
                     total_price |-> total_price]>>)

\* the item of a line pattern2 matched, kept when the name is longer than two
\* characters and 0 < price < 500
pattern2_item(name, price) ==
    IF Len(name) > 2 /\ price.num > 0 /\ price.num < 500 * 100
    THEN Returned(<<[name |-> email_clean_item_name(name),
                     quantity |-> 1,
                     unit_price |-> price,
                     total_price |-> price]>>)
    ELSE Returned(<<>>)

\* the fallback branch: match2 = re.search(pattern2, line)
pattern2_branch(line, match2) ==
    IF match2.ok
    THEN pattern2_item(Strip(Group(match2, line, 1)), ParseAmount(Group(match2, line, 2)))
    ELSE Returned(<<>>)

\* match1 = re.search(pattern1, line, re.IGNORECASE), pattern2 tried when it fails
pattern1_branch(line, match1) ==
    IF match1.ok
    THEN pattern1_item(ParseInt(Group(match1, line, 1)),
                       Strip(Group(match1, line, 2)),
                       captured_unit_price(Group(match1, line, 3)),
                       ParseAmount(Group(match1, line, 4)))
    ELSE pattern2_branch(line, Search(pattern2, line))

\* the body of the loop of _extract_items_from_email after line = line.strip()
email_stripped_line_items(line) ==
    IF line = "" \/ Len(line) < 5 THEN Returned(<<>>)
    ELSE IF AnySkip(email_skips, line) THEN Returned(<<>>)
    ELSE pattern1_branch(line, SearchI(pattern1, line))

\* the body of the loop of _extract_items_from_email: the items one line adds,
\* or the exception it raises
email_line_items(raw_line) == email_stripped_line_items(Strip(raw_line))

\* the items of the later lines put before those of the line
items_then_Reversed(here, later) ==
    IF here.raised # "" THEN here
    ELSE IF later.raised # "" THEN later
    ELSE Returned(later.value \o here.value)

\* the items of a line followed by those of the later lines; an exception ends
\* the loop
items_then(here, later) ==
    IF here.raised # "" THEN here
    ELSE IF later.raised # "" THEN later
    ELSE Returned(here.value \o later.value)

RECURSIVE email_extract_from(_, _)
email_extract_from(lines, l) ==
    IF l > Len(lines) THEN Returned(<<>>)
    ELSE items_then(email_line_items(lines[l]), email_extract_from(lines, l + 1))

\* EmailReceiptParser._extract_items_from_email; lines = body.split('\n')
email_extract_items(body) == email_extract_from(SplitLines(body), 1)

----------------------------------------------------------------------------
(* Store identification *)

\* ReceiptProcessor.store_patterns, in declaration order
scan_store_patterns == <<
    [store |-> "walmart",     pattern |-> <<Alt(<<Lit("walmart"), Lit("wal-mart")>>)>>],
    [store |-> "kroger",      pattern |-> Lit("kroger")],
    [store |-> "target",      pattern |-> Lit("target")],
    [store |-> "costco",      pattern |-> Lit("costco")],
    [store |-> "whole foods", pattern |-> Lit("whole") \o <<Star(Space)>> \o Lit("foods")],
    [store |-> "trader joe",  pattern |-> Lit("trader") \o <<Star(Space)>> \o Lit("joe")],
    [store |-> "safeway",     pattern |-> Lit("safeway")],
    [store |-> "publix",      pattern |-> Lit("publix")],
    [store |-> "albertsons",  pattern |-> Lit("albertsons")],
    [store |-> "aldi",        pattern |-> Lit("aldi")] >>

\* EmailReceiptParser.store_patterns, in declaration order
email_store_patterns == <<
    [store |-> "walmart",     pattern |-> <<Alt(<<Lit("walmart"), Lit("wal-mart")>>)>>],
    [store |-> "amazon",      pattern |-> Lit("amazon")],
    [store |-> "kroger",      pattern |-> Lit("kroger")],
    [store |-> "target",      pattern |-> Lit("target")],
    [store |-> "instacart",   pattern |-> Lit("instacart")],
    [store |-> "whole foods", pattern |-> Lit("whole") \o <<Star(Space)>> \o Lit("foods")],
    [store |-> "trader joe",  pattern |-> Lit("trader") \o <<Star(Space)>> \o Lit("joe")] >>

\* the store whose pattern matches earliest in the text, not the first of the table
StoreLoop_FirstInText(patterns, text_lower, p) ==
    LET starts == {Search(patterns[q].pattern, text_lower).start : q \in 1..Len(patterns)} \ {0}
        first == CHOOSE x \in starts : \A y \in starts : x <= y
        q == CHOOSE q \in 1..Len(patterns) :
                 Search(patterns[q].pattern, text_lower).start = first
    IN IF starts = {} THEN "Unknown Store" ELSE Title(patterns[q].store)

\* the loop ending in 'Unknown', the default save_receipt_to_db falls back on,
\* instead of "Unknown Store"
StoreLoop_OtherDefault(patterns, text_lower, p) ==
    LET hits == {q \in p..Len(patterns) : Search(patterns[q].pattern, text_lower).ok}
    IN IF hits = {} THEN "Unknown"
       ELSE Title(patterns[CHOOSE q \in hits : \A o \in hits : q <= o].store)

RECURSIVE StoreLoop(_, _, _)
\* for store, pattern in self.store_patterns.items(): the loop from the p-th on
StoreLoop(patterns, text_lower, p) ==
    IF p > Len(patterns) THEN "Unknown Store"
    ELSE IF Search(patterns[p].pattern, text_lower).ok THEN Title(patterns[p].store)
    ELSE StoreLoop(patterns, text_lower, p + 1)

\* ReceiptProcessor._extract_store_name
extract_store_name(t) == StoreLoop(scan_store_patterns, Lower(t), 1)

\* EmailReceiptParser._identify_store
identify_store(body, subj, sndr) ==
    StoreLoop(email_store_patterns, Lower(subj \o " " \o sndr \o " " \o body), 1)

----------------------------------------------------------------------------
(* Totals *)

\* [\s:]*[\$]?\s*(\d+\.\d{2})
ScanAmountTail ==
    <<Star(Space \cup {":"}), Opt({"$"}), Star(Space), Open(1)>> \o AmountRe \o <<Close(1)>>

\* r'(?:total|amount due|balance)[\s:]*[\$]?\s*(\d+\.\d{2})'
total_pattern ==
    <<Alt(<<Lit("total"), Lit("amount due"), Lit("balance")>>)>> \o ScanAmountTail

\* r'(?:tax|sales tax)[\s:]*[\$]?\s*(\d+\.\d{2})'
tax_pattern ==
    <<Alt(<<Lit("tax"), Lit("sales tax")>>)>> \o ScanAmountTail

\* group 1 of the match as an amount, 0.0 without a match
AmountOf(m, s) == IF m.ok THEN ParseAmount(Group(m, s, 1)) ELSE Amount(0, 1)

\* ReceiptProcessor._extract_totals
scan_extract_totals(t) ==
    [total |-> AmountOf(Search(total_pattern, Lower(t)), Lower(t)),
     tax   |-> AmountOf(Search(tax_pattern, Lower(t)), Lower(t))]

\* [\s:]+[\$]?\s*(\d+\.\d{2})
EmailAmountTail ==
    <<Plus(Space \cup {":"}), Opt({"$"}), Star(Space), Open(1)>> \o AmountRe \o <<Close(1)>>

\* the list total_patterns of _extract_totals_from_email
total_patterns == <<
    <<Alt(<<Lit("order") \o <<Plus(Space)>>, <<>> >>)>> \o Lit("total") \o EmailAmountTail,
    Lit("amount") \o <<Plus(Space), Alt(<<Lit("due"), Lit("charged")>>)>> \o EmailAmountTail,
    Lit("grand") \o <<Plus(Space)>> \o Lit("total") \o EmailAmountTail >>

\* the list tax_patterns of _extract_totals_from_email
tax_patterns == <<
    <<Alt(<<Lit("sales") \o <<Plus(Space)>>, <<>> >>)>> \o Lit("tax") \o EmailAmountTail,
    Lit("estimated") \o <<Plus(Space)>> \o Lit("tax") \o EmailAmountTail >>

\* the amount of the match that starts earliest in the text, whichever pattern
\* of the list it is a match of
FirstPattern_Earliest(patterns, body_lower, p) ==
    LET starts == {Search(patterns[q], body_lower).start : q \in p..Len(patterns)} \ {0}
        first == CHOOSE x \in starts : \A y \in starts : x <= y
        q == CHOOSE q \in p..Len(patterns) : Search(patterns[q], body_lower).start = first
    IN IF starts = {} THEN Amount(0, 1)
       ELSE ParseAmount(Group(Search(patterns[q], body_lower), body_lower, 1))

RECURSIVE FirstPattern(_, _, _)
\* for pattern in patterns: ... break at the first pattern that matches
FirstPattern(patterns, body_lower, p) ==
    IF p > Len(patterns) THEN Amount(0, 1)
    ELSE LET match == Search(patterns[p], body_lower)
         IN IF match.ok THEN ParseAmount(Group(match, body_lower, 1))
            ELSE FirstPattern(patterns, body_lower, p + 1)

\* EmailReceiptParser._extract_totals_from_email
email_extract_totals(body) ==
    [total |-> FirstPattern(total_patterns, Lower(body), 1),
     tax   |-> FirstPattern(tax_patterns, Lower(body), 1)]

----------------------------------------------------------------------------
(* Dates *)

MonthAbbr == <<"jan", "feb", "mar", "apr", "may", "jun",
               "jul", "aug", "sep", "oct", "nov", "dec">>

MonthName == <<"january", "february", "march", "april", "may", "june", "july",
               "august", "september", "october", "november", "december">>

LitAlt(names) == Alt([n \in 1..Len(names) |-> Lit(names[n])])

\* the patterns of _extract_date, in list order
date_patterns == <<
    \* r'(\d{1,2}[-/]\d{1,2}[-/]\d{2,4})'
    <<Open(1), Rep(Digit, 1, 2), One({"-", "/"}), Rep(Digit, 1, 2), One({"-", "/"}),
      Rep(Digit, 2, 4), Close(1)>>,
    \* r'(\d{4}[-/]\d{1,2}[-/]\d{1,2})'
    <<Open(1), Rep(Digit, 4, 4), One({"-", "/"}), Rep(Digit, 1, 2), One({"-", "/"}),
      Rep(Digit, 1, 2), Close(1)>>,
    \* r'(\d{1,2}\s+(?:jan|feb|mar|apr|may|jun|jul|aug|sep|oct|nov|dec)[a-z]*\s+\d{2,4})'
    <<Open(1), Rep(Digit, 1, 2), Plus(Space), LitAlt(MonthAbbr), Star(LowerLetter),
      Plus(Space), Rep(Digit, 2, 4), Close(1)>> >>

\* the formats tried on the matched substring, in list order
date_formats == <<"%m/%d/%Y", "%m-%d-%Y", "%m/%d/%y", "%m-%d-%y",
                  "%Y-%m-%d", "%Y/%m/%d", "%d %b %Y", "%d %B %Y">>

NonZero == Digit \ {"0"}

\* the regular expression strptime matches a directive with; the groups are
\* 1: month number, 2: day, 3: year, 4: month name
DirectiveRe(d) ==
    CASE d = "m" -> <<Open(1), Alt(<< <<One({"1"}), One({"0", "1", "2"})>>,
                                      <<One({"0"}), One(NonZero)>>,
                                      <<One(NonZero)>> >>), Close(1)>>
      [] d = "d" -> <<Open(2), Alt(<< <<One({"3"}), One({"0", "1"})>>,
                                      <<One({"1", "2"}), One(Digit)>>,
                                      <<One({"0"}), One(NonZero)>>,
                                      <<One(NonZero)>>,
                                      <<One({" "}), One(NonZero)>> >>), Close(2)>>
      [] d = "Y" -> <<Open(3), Rep(Digit, 4, 4), Close(3)>>
      [] d = "y" -> <<Open(3), Rep(Digit, 2, 2), Close(3)>>
      [] d = "b" -> <<Open(4), LitAlt(MonthAbbr), Close(4)>>
      [] d = "B" -> <<Open(4), LitAlt(MonthName), Close(4)>>

RECURSIVE FormatRe(_, _)
\* the regular expression of the format fmt, from its i-th character on
FormatRe(fmt, i) ==
    IF i > Len(fmt) THEN <<>>
    ELSE IF CharAt(fmt, i) = "%" THEN DirectiveRe(CharAt(fmt, i + 1)) \o FormatRe(fmt, i + 2)
    ELSE IF CharAt(fmt, i) \in Space THEN <<Plus(Space)>> \o FormatRe(fmt, i + 1)
    ELSE <<One({CharAt(fmt, i)})>> \o FormatRe(fmt, i + 1)

IsLeap(y) == y % 4 = 0 /\ (y % 100 # 0 \/ y % 400 = 0)

DaysIn(y, m) ==
    IF m = 2 THEN (IF IsLeap(y) THEN 29 ELSE 28)
    ELSE IF m \in {4, 6, 9, 11} THEN 30 ELSE 31

\* the month a name stands for
MonthOf(name, names) == CHOOSE n \in 1..Len(names) : names[n] = name

Now == [now |-> TRUE, year |-> 0, month |-> 0, day |-> 0]

Date(y, m, d) == [now |-> FALSE, year |-> y, month |-> m, day |-> d]

\* datetime.strptime(date_str, fmt): the date, or ValueError
strptime(date_str, fmt) ==
    LET found == MatchHere(FormatRe(fmt, 1), date_str, 1, NoCaps, TRUE)
        long == Contains("%Y", fmt)
        year == IF long THEN ParseInt(Group(found, date_str, 3))
                ELSE LET y == ParseInt(Group(found, date_str, 3))
                     IN IF y <= 68 THEN 2000 + y ELSE 1900 + y
        month == IF Contains("%m", fmt) THEN ParseInt(Group(found, date_str, 1))
                 ELSE IF Contains("%b", fmt)
                      THEN MonthOf(Lower(Group(found, date_str, 4)), MonthAbbr)
                 ELSE MonthOf(Lower(Group(found, date_str, 4)), MonthName)
        day == ParseInt(Strip(Group(found, date_str, 2)))
    IN IF ~found.ok \/ found.end # Len(date_str) + 1 THEN Raised("ValueError")
       ELSE IF year < 1 \/ day > DaysIn(year, month) THEN Raised("ValueError")
       ELSE Returned(Date(year, month, day))

RECURSIVE FormatLoop(_, _)
\* for fmt in [...]: try: return strptime(date_str, fmt) except ValueError: continue
FormatLoop(date_str, f) ==
    IF f > Len(date_formats) THEN Raised("ValueError")
    ELSE LET parsed == strptime(date_str, date_formats[f])
         IN IF parsed.raised = "" THEN parsed ELSE FormatLoop(date_str, f + 1)

\* the loop that decides on the first pattern that matches: the current time
\* when its substring parses under no format, later patterns not consulted
PatternLoop_FirstMatchDecides(text_lower, p) ==
    LET matching == {q \in p..Len(date_patterns) : Search(date_patterns[q], text_lower).ok}
        first == CHOOSE q \in matching : \A o \in matching : q <= o
        parsed == FormatLoop(Group(Search(date_patterns[first], text_lower), text_lower, 1), 1)
    IN IF matching = {} THEN Now
       ELSE IF parsed.raised = "" THEN parsed.value ELSE Now

RECURSIVE PatternLoop(_, _)
\* for pattern in patterns: the loop from the p-th pattern on
PatternLoop(text_lower, p) ==
    IF p > Len(date_patterns) THEN Now
    ELSE LET match == Search(date_patterns[p], text_lower)
         IN IF match.ok
            THEN LET parsed == FormatLoop(Group(match, text_lower, 1), 1)
                 IN IF parsed.raised = "" THEN parsed.value
                    ELSE PatternLoop(text_lower, p + 1)
            ELSE PatternLoop(text_lower, p + 1)

\* ReceiptProcessor._extract_date
extract_date(t) == PatternLoop(Lower(t), 1)

----------------------------------------------------------------------------
(* The parsers *)

\* ReceiptProcessor.parse_receipt_text
parse_receipt_text(t) ==
    LET totals == scan_extract_totals(t)
    IN Returned([store_name    |-> extract_store_name(t),
                 purchase_date |-> extract_date(t),
                 items         |-> scan_extract_items(scan_lines(t)),
                 total_amount  |-> totals.total,
                 tax_amount    |-> totals.tax])

\* the receipt _parse_receipt_from_body builds, or the exception the item
\* extraction raised
email_receipt(store_name, items, totals) ==
    IF items.raised # "" THEN items
    ELSE Returned([store_name    |-> store_name,
                   purchase_date |-> Now,
                   items         |-> items.value,
                   total_amount  |-> totals.total,
                   tax_amount    |-> totals.tax])

\* EmailReceiptParser._parse_receipt_from_body; parse_eml_file then sets
\* purchase_date from the Date header and turns an exception into ValueError
parse_receipt_from_body(body, subj, sndr) ==
    email_receipt(identify_store(body, subj, sndr),
                  email_extract_items(body),
                  email_extract_totals(body))

\* the loop of save_receipt_to_db over receipt_data['items']: each item with the
\* category it is stored under
with_categories(items) ==
    [n \in 1..Len(items) |->
        [name        |-> items[n].name,
         quantity    |-> items[n].quantity,
         unit_price  |-> items[n].unit_price,
         total_price |-> items[n].total_price,
         category    |-> categorize_item(items[n].name)]]

----------------------------------------------------------------------------
(* Inputs *)

RECURSIVE JoinedOf(_, _, _)
\* the texts made of exactly n of the pieces, joined by one of the separators
JoinedOf(pieces, seps, n) ==
    IF n = 1 THEN pieces
    ELSE {a \o sp \o w : a \in JoinedOf(pieces, seps, n - 1), sp \in seps, w \in pieces}

\* the texts made of at most n of the pieces, the empty text among them
Joined(pieces, seps, n) == {""} \cup UNION {JoinedOf(pieces, seps, m) : m \in 1..n}

\* the most words an item name handed to the classifier is built from
MaxNameWords == 2

NameWords == {"ham", "shampoo", "Ice", "cream", "peanut", "butter"}

NameSeps == {" ", "  ", "_"}

ItemNames == Joined(NameWords, NameSeps, MaxNameWords)

\* raw name fragments handed to the two normalizers
RawNames ==
    {""} \cup {pre \o core \o suf :
                 pre \in {"", "123 ", "4011"},
                 core \in {"milk", "Large Egg", "GREEN   tea", "x-ray!", "Rice (5 kg)"},
                 suf \in {"", " lb", " EA", "2kg", "  each "}}

\* the most lines of a document handed to a parser
MaxDocLines == 2

DocLines == {"BANANAS  1.99", "MILK 2 @ 3.99  7.98", "TOTAL  9.97", "MILK 0 @ 3.99",
             "2 x Milk @ $3.99 $9.00", "3 x Eggs $2.00", "0 x Milk 3.99",
             "Bread   2.50"}

Scenario == "BANANAS  1.99\nMILK 2 @ 3.99  7.98\nTOTAL  9.97"

Documents == Joined(DocLines, {"\n"}, MaxDocLines) \cup {Scenario}

Subjects == {"", "Your Amazon order"}

Senders == {"", "orders@target.com"}

\* the most words of a text handed to the store identification
MaxStoreWords == 2

StoreWords == {"WALMART SUPERCENTER #123", "Wal-Mart", "target", "Whole  Foods",
               "trader\njoe's", "aldi", "Kroger", "wal mart"}

StoreTexts == Joined(StoreWords, {" "}, MaxStoreWords)

\* the most lines of a text handed to the totals extractors
MaxTotalLines == 2

TotalLines == {"amount due: 10.00", "total: 20.00", "TOTAL: $45.67", "Subtotal 5.00",
               "sales tax 0.40", "Tax: $1.25", "estimated tax 2.00", "balance 7.00",
               "thank you"}

TotalTexts == Joined(TotalLines, {"\n"}, MaxTotalLines)

DateYears == {1999, 2011, 2024}

DateMonths == {1, 2, 11, 12}

DateDays == {1, 5, 12, 15, 29, 31}

ValidDates ==
    {dt \in {Date(y, m, d) : y \in DateYears, m \in DateMonths, d \in DateDays} :
        dt.day <= DaysIn(dt.year, dt.month)}

DigitChar(n) == CharAt("0123456789", n + 1)

\* n written with two and with four digits
Pad2(n) == DigitChar(n \div 10) \o DigitChar(n % 10)

Pad4(n) == Pad2(n \div 100) \o Pad2(n % 100)

DateShapes == {"MM/DD/YYYY", "YYYY-MM-DD", "DD Month YYYY"}

\* the date dt written in the shape sh
Written(dt, sh) ==
    CASE sh = "MM/DD/YYYY" -> Pad2(dt.month) \o "/" \o Pad2(dt.day) \o "/" \o Pad4(dt.year)
      [] sh = "YYYY-MM-DD" -> Pad4(dt.year) \o "-" \o Pad2(dt.month) \o "-" \o Pad2(dt.day)
      [] sh = "DD Month YYYY" ->
            Pad2(dt.day) \o " " \o Title(MonthName[dt.month]) \o " " \o Pad4(dt.year)

\* texts without a date, or with digits no format parses
UndatedTexts == {"", "Bread  2.50", "13/45/2024", "31/12/2024", "2024-13-45"}

DateTexts ==
    {pre \o Written(dt, sh) \o suf :
        pre \in {"", "KROGER #12\n"}, dt \in ValidDates, sh \in DateShapes,
        suf \in {"", "\nBread  2.50"}}
      \cup UndatedTexts

----------------------------------------------------------------------------
(* Specifications *)

NoName == item_name = "" /\ category = "" /\ cleaned = [scan |-> <<>>, email |-> <<>>]

NoDocument == text = "" /\ subject = "" /\ sender = ""

\* the objects create_app builds once: ItemCategorizer.categories and the two
\* store_patterns tables (the skip-lists are literals of the methods)
Processors0 ==
    [categorizer       |-> [categories |-> categories],
     receipt_processor |-> [store_patterns |-> scan_store_patterns],
     email_parser      |-> [store_patterns |-> email_store_patterns]]

\* no row: the tables of models.py, empty
NoRows == [receipts |-> {}, items |-> {}]

\* the database after db.create_all(): no row, no write transaction open
Database0 == [receipts |-> {}, items |-> {}, writer |-> 0, pending |-> NoRows]

\* an empty upload folder and database, no handler running
NoStorage == uploads = <<>> /\ clock = 0 /\ db = Database0 /\ handlers = <<>>

\* the application serving no request
NoServer == processors = Processors0 /\ requests = <<>> /\ NoStorage

\* --- the classifier applied to an item name
InitClassify ==
    /\ pc = "ready"
    /\ item_name \in ItemNames
    /\ category = ""
    /\ cleaned = [scan |-> <<>>, email |-> <<>>]
    /\ NoDocument
    /\ result = Returned(<<>>)
    /\ NoServer

Categorize ==
    /\ pc = "ready"
    /\ pc' = "categorize_item"
    /\ category' = categorize_item(item_name)
    /\ UNCHANGED <<item_name, cleaned, text, subject, sender, result>>
    /\ UNCHANGED server

NextClassify == Categorize

SpecClassify == InitClassify /\ [][NextClassify]_vars

\* --- the two name normalizers applied to a raw name
InitClean ==
    /\ pc = "ready"
    /\ item_name \in RawNames
    /\ category = ""
    /\ cleaned = [scan |-> <<>>, email |-> <<>>]
    /\ NoDocument
    /\ result = Returned(<<>>)
    /\ NoServer

CleanScan ==
    /\ cleaned.scan = <<>>
    /\ cleaned' = [cleaned EXCEPT !.scan = <<scan_clean_item_name(item_name)>>]
    /\ UNCHANGED <<pc, item_name, category, text, subject, sender, result>>
    /\ UNCHANGED server

CleanEmail ==
    /\ cleaned.email = <<>>
    /\ cleaned' = [cleaned EXCEPT !.email = <<email_clean_item_name(item_name)>>]
    /\ UNCHANGED <<pc, item_name, category, text, subject, sender, result>>
    /\ UNCHANGED server

NextClean == CleanScan \/ CleanEmail

SpecClean == InitClean /\ [][NextClean]_vars

\* --- a document parsed on the scan path or on the email path, then saved
InitParse ==
    /\ pc = "ready"
    /\ NoName
    /\ text \in Documents
    /\ subject \in Subjects
    /\ sender \in Senders
    /\ result = Returned(<<>>)
    /\ NoServer

ParseScan ==
    /\ pc = "ready"
    /\ pc' = "parse_receipt_text"
    /\ result' = parse_receipt_text(text)
    /\ UNCHANGED <<item_name, category, cleaned, text, subject, sender>>
    /\ UNCHANGED server

ParseEmail ==
    /\ pc = "ready"
    /\ pc' = "_parse_receipt_from_body"
    /\ result' = parse_receipt_from_body(text, subject, sender)
    /\ UNCHANGED <<item_name, category, cleaned, text, subject, sender>>
    /\ UNCHANGED server

\* save_receipt_to_db: the items stored with their categories
SaveReceipt ==
    /\ pc \in {"parse_receipt_text", "_parse_receipt_from_body"}
    /\ result.raised = ""
    /\ pc' = IF pc = "parse_receipt_text" THEN "saved scan" ELSE "saved email"
    /\ result' = Returned([result.value EXCEPT !.items = with_categories(@)])
    /\ UNCHANGED <<item_name, category, cleaned, text, subject, sender>>
    /\ UNCHANGED server

NextParse == ParseScan \/ ParseEmail \/ SaveReceipt

SpecParse == InitParse /\ [][NextParse]_vars

\* --- store identification
InitStore ==
    /\ pc = "ready"
    /\ NoName
    /\ text \in StoreTexts
    /\ subject \in Subjects
    /\ sender \in Senders
    /\ result = Returned("")
    /\ NoServer

ExtractStoreName ==
    /\ pc = "ready"
    /\ pc' = "_extract_store_name"
    /\ result' = Returned(extract_store_name(text))
    /\ UNCHANGED <<item_name, category, cleaned, text, subject, sender>>
    /\ UNCHANGED server

IdentifyStore ==
    /\ pc = "ready"
    /\ pc' = "_identify_store"
    /\ result' = Returned(identify_store(text, subject, sender))
    /\ UNCHANGED <<item_name, category, cleaned, text, subject, sender>>
    /\ UNCHANGED server

NextStore == ExtractStoreName \/ IdentifyStore

SpecStore == InitStore /\ [][NextStore]_vars

\* --- the totals extractors
InitTotals ==
    /\ pc = "ready"
    /\ NoName
    /\ text \in TotalTexts
    /\ subject = ""
    /\ sender = ""
    /\ result = Returned([total |-> Amount(0, 1), tax |-> Amount(0, 1)])
    /\ NoServer

ExtractTotals ==
    /\ pc = "ready"
    /\ pc' = "_extract_totals"
    /\ result' = Returned(scan_extract_totals(text))
    /\ UNCHANGED <<item_name, category, cleaned, text, subject, sender>>
    /\ UNCHANGED server

ExtractTotalsFromEmail ==
    /\ pc = "ready"
    /\ pc' = "_extract_totals_from_email"
    /\ result' = Returned(email_extract_totals(text))
    /\ UNCHANGED <<item_name, category, cleaned, text, subject, sender>>
    /\ UNCHANGED server

NextTotals == ExtractTotals \/ ExtractTotalsFromEmail

SpecTotals == InitTotals /\ [][NextTotals]_vars

\* --- the scan path's date extractor
InitDate ==
    /\ pc = "ready"
    /\ NoName
    /\ text \in DateTexts
    /\ subject = ""
    /\ sender = ""
    /\ result = Returned(Now)
    /\ NoServer

ExtractDate ==
    /\ pc = "ready"
    /\ pc' = "_extract_date"
    /\ result' = Returned(extract_date(text))
    /\ UNCHANGED <<item_name, category, cleaned, text, subject, sender>>
    /\ UNCHANGED server

NextDate == ExtractDate

SpecDate == InitDate /\ [][NextDate]_vars

----------------------------------------------------------------------------
(* Claims about the classifier, under SpecClassify *)

Min(S) == CHOOSE x \in S : \A y \in S : x <= y

C1_Order == <<"Produce", "Meat & Seafood", "Dairy & Eggs", "Bakery & Bread",
              "Pantry & Canned", "Beverages", "Frozen", "Snacks & Sweets",
              "Condiments & Sauces">>

KeywordsOf(cat) ==
    LET c == CHOOSE c \in 1..Len(categories) : categories[c].name = cat
    IN categories[c].keywords

\* the positions in C1_Order of the categories with a keyword hit in the name
HitCategories(name) ==
    LET item_lower == Lower(name)
    IN {n \in 1..Len(C1_Order) :
            LET keywords == KeywordsOf(C1_Order[n])
            IN \E k \in 1..Len(keywords) : KeywordHit(keywords[k], item_lower)}

\* C1: categorize_item returns the earliest category, in the order Produce,
\* Meat & Seafood, Dairy & Eggs, Bakery & Bread, Pantry & Canned, Beverages,
\* Frozen, Snacks & Sweets, Condiments & Sauces, that has a keyword hit in the
\* lowercased name, and 'Other' exactly when no category has a hit; the result
\* is one of the ten configured names.
C1_FirstCategoryInOrder ==
    pc = "categorize_item" =>
        /\ category \in {C1_Order[n] : n \in 1..Len(C1_Order)} \cup {"Other"}
        /\ LET hits == HitCategories(item_name)
           IN category = IF hits = {} THEN "Other" ELSE C1_Order[Min(hits)]

\* a name hitting keywords of two categories was classified as the earlier one
C1_Witness ==
    /\ pc = "categorize_item"
    /\ LET hits == HitCategories(item_name)
       IN Cardinality(hits) >= 2 /\ category = C1_Order[Min(hits)]

\* kw occurs in s as a whole word or phrase: contiguous, with a non-word
\* character or an end of the string on each side
DelimitedOccurrence(kw, s) ==
    \E i \in 1..(Len(s) - Len(kw) + 1) :
        /\ SubSeq(s, i, i + Len(kw) - 1) = kw
        /\ i = 1 \/ CharAt(s, i - 1) \notin Word
        /\ i + Len(kw) > Len(s) \/ CharAt(s, i + Len(kw)) \notin Word

PlainOccurrence(kw, s) ==
    \E i \in 1..(Len(s) - Len(kw) + 1) : SubSeq(s, i, i + Len(kw) - 1) = kw

\* C9: a keyword hits a name only when it occurs in the lowercased name as a
\* whole word or whole contiguous phrase, delimited on each side by a non-word
\* character or an end of the string; so a name classified under a category
\* holds a delimited occurrence of one of that category's keywords.
C9_WholeWordHit ==
    pc = "categorize_item" =>
        LET item_lower == Lower(item_name)
        IN /\ \A c \in 1..Len(categories) : \A k \in 1..Len(categories[c].keywords) :
                 KeywordHit(categories[c].keywords[k], item_lower) =>
                     DelimitedOccurrence(categories[c].keywords[k], item_lower)
           /\ category # "Other" =>
                 LET keywords == KeywordsOf(category)
                 IN \E k \in 1..Len(keywords) :
                        DelimitedOccurrence(keywords[k], item_lower)

\* a name holding a keyword only inside a longer word ('ham' in 'shampoo') was
\* classified 'Other'
C9_Witness ==
    /\ pc = "categorize_item"
    /\ category = "Other"
    /\ \E c \in 1..Len(categories) : \E k \in 1..Len(categories[c].keywords) :
          PlainOccurrence(categories[c].keywords[k], Lower(item_name))

----------------------------------------------------------------------------
(* Claims about the parsers, under SpecParse *)

Items == result.value.items

\* C2: for the three lines "BANANAS  1.99", "MILK 2 @ 3.99  7.98", "TOTAL  9.97"
\* the scan path, with classification, yields exactly the items
\* {Bananas, 1.0, 1.99, 1.99, Produce} and {Milk, 2.0, 3.99, 7.98, Dairy & Eggs},
\* and totalAmount 9.97.
C2_Scenario ==
    (pc = "saved scan" /\ text = Scenario) =>
        /\ Items = <<[name |-> "Bananas", quantity |-> 1, unit_price |-> Amount(199, 1),
                      total_price |-> Amount(199, 1), category |-> "Produce"],
                     [name |-> "Milk", quantity |-> 2, unit_price |-> Amount(399, 1),
                      total_price |-> Amount(798, 1), category |-> "Dairy & Eggs"]>>
        /\ result.value.total_amount = Amount(997, 1)

Abs(x) == IF x < 0 THEN -x ELSE x

\* quantity * unit_price and total_price differ by at most one cent
WithinOneCent(it) ==
    Abs(it.quantity * it.unit_price.num * it.total_price.den
          - it.total_price.num * it.unit_price.den)
        <= it.unit_price.den * it.total_price.den

\* C3: on both paths, every item emitted for a line matched by the
\* explicit-quantity pattern has totalPrice == quantity * unitPrice within one
\* cent (an item of the trailing-price pattern has quantity 1 and unitPrice =
\* totalPrice, so the statement is made of every item).
C3_TotalIsQuantityTimesUnit ==
    (pc # "ready" /\ result.raised = "") =>
        \A n \in 1..Len(Items) : WithinOneCent(Items[n])

\* C4: parsing decoded text never raises: parse_receipt_text and
\* _parse_receipt_from_body always return a record.
C4_NeverRaises ==
    pc \in {"parse_receipt_text", "_parse_receipt_from_body"} => result.raised = ""

\* C5: every emitted item has quantity > 0, unitPrice >= 0 and totalPrice >= 0,
\* and totalAmount and taxAmount of every record are >= 0.
C5_PositiveQuantity ==
    (pc # "ready" /\ result.raised = "") =>
        /\ \A n \in 1..Len(Items) :
              /\ Items[n].quantity > 0
              /\ Items[n].unit_price.num >= 0
              /\ Items[n].total_price.num >= 0
        /\ result.value.total_amount.num >= 0
        /\ result.value.tax_amount.num >= 0

----------------------------------------------------------------------------
(* Claims about store identification, under SpecStore *)

C6_ScanStores == <<"Walmart", "Kroger", "Target", "Costco", "Whole Foods", "Trader Joe",
                   "Safeway", "Publix", "Albertsons", "Aldi">>

C6_EmailStores == <<"Walmart", "Amazon", "Kroger", "Target", "Instacart", "Whole Foods",
                    "Trader Joe">>

\* the pattern matches somewhere in s
OccursAnywhere(pattern, s) ==
    \E i \in 1..(Len(s) + 1) : MatchHere(pattern, s, i, NoCaps, FALSE).ok

\* the entries of the table whose pattern occurs in the lowercased text
StoreHits(patterns, combined) ==
    {p \in 1..Len(patterns) : OccursAnywhere(patterns[p].pattern, Lower(combined))}

C6_Expected(patterns, names, combined) ==
    LET hits == StoreHits(patterns, combined)
    IN IF hits = {} THEN "Unknown Store" ELSE names[Min(hits)]

Combined == subject \o " " \o sender \o " " \o text

\* C6: on both paths, store identification returns the title-cased key of the
\* first entry, in the table's declaration order, whose pattern occurs anywhere
\* in the lowercased combined text (scan: text; email: subject + sender + body),
\* wherever the occurrences lie, and 'Unknown Store' exactly when none occurs.
C6_FirstStoreInTableOrder ==
    /\ pc = "_extract_store_name" =>
          result.value = C6_Expected(scan_store_patterns, C6_ScanStores, text)
    /\ pc = "_identify_store" =>
          result.value = C6_Expected(email_store_patterns, C6_EmailStores, Combined)

\* a text in which a later entry of the table occurs before the first entry
\* that occurs, identified as the first entry
C6_Witness ==
    /\ pc = "_extract_store_name"
    /\ LET hits == StoreHits(scan_store_patterns, text)
       IN /\ Cardinality(hits) >= 2
          /\ \E p \in hits :
                Search(scan_store_patterns[p].pattern, Lower(text)).start
                  < Search(scan_store_patterns[Min(hits)].pattern, Lower(text)).start
          /\ result.value = C6_ScanStores[Min(hits)]

----------------------------------------------------------------------------
(* Claims about the totals, under SpecTotals *)

C7_ScanTotalFamily == <<Lit("total") \o ScanAmountTail,
                        Lit("amount due") \o ScanAmountTail,
                        Lit("balance") \o ScanAmountTail>>

C7_ScanTaxFamily == <<Lit("tax") \o ScanAmountTail, Lit("sales tax") \o ScanAmountTail>>

\* where occurrences of a pattern of the family start
Occurrences(family, s) ==
    {i \in 1..Len(s) : \E p \in 1..Len(family) : MatchHere(family[p], s, i, NoCaps, FALSE).ok}

\* the amount of the occurrence that starts at position i
AmountAt(family, s, i) ==
    LET p == CHOOSE p \in 1..Len(family) : MatchHere(family[p], s, i, NoCaps, FALSE).ok
    IN ParseAmount(Group(MatchHere(family[p], s, i, NoCaps, FALSE), s, 1))

\* the amount of the earliest occurrence of any pattern of the family, else 0.0
EarliestAmount(family, s) ==
    IF Occurrences(family, s) = {} THEN Amount(0, 1)
    ELSE AmountAt(family, s, Min(Occurrences(family, s)))

\* the amount of the earliest occurrence of the first pattern of the list that
\* occurs at all, else 0.0
FirstListedAmount(family, s) ==
    LET listed == {p \in 1..Len(family) : Occurrences(<<family[p]>>, s) # {}}
    IN IF listed = {} THEN Amount(0, 1) ELSE EarliestAmount(<<family[Min(listed)]>>, s)

----------------------------------------------------------------------------
(* Claims about the date, under SpecDate *)

\* C8: for a text whose only date-shaped substring is a valid calendar date
\* written as MM/DD/YYYY, YYYY-MM-DD or DD Month YYYY, _extract_date returns
\* exactly that date.
C8_DateAsWritten ==
    pc = "_extract_date" =>
        \A dt \in ValidDates : \A sh \in DateShapes :
            Contains(Written(dt, sh), text) => result.value = dt

----------------------------------------------------------------------------
(* Claims about the name normalizers, under SpecClean *)

\* C10: the scan path's and the email path's _clean_item_name return the same
\* string for every raw name, the empty string for the empty name.
C10_SameNormalizer ==
    (cleaned.scan # <<>> /\ cleaned.email # <<>>) =>
        /\ cleaned.scan = cleaned.email
        /\ item_name = "" => cleaned.scan = <<"">>

----------------------------------------------------------------------------
(* Documents without any amount, parsed on both paths *)

\* the most lines of a document without amounts
MaxNoiseLines == 2

NoiseLines == {"WALMART", "Thank you!", "hello world", "3 x eggs", "$ 5", "   "}

NoiseDocuments == Joined(NoiseLines, {"\n"}, MaxNoiseLines)

InitNoise ==
    /\ pc = "ready"
    /\ NoName
    /\ text \in NoiseDocuments
    /\ subject \in Subjects
    /\ sender \in Senders
    /\ result = Returned(<<>>)
    /\ NoServer

SpecNoise == InitNoise /\ [][NextParse]_vars

\* no substring of t has the shape <digits>.<two digits> every item pattern and
\* every total pattern asks for
NoAmount(t) == ~OccursAnywhere(AmountRe, t)

\* the record of a document nothing was extracted from
Defaults(r, store) ==
    /\ r.raised = ""
    /\ r.value.store_name = store
    /\ r.value.items = <<>>
    /\ r.value.total_amount = Amount(0, 1)
    /\ r.value.tax_amount = Amount(0, 1)

\* C11: the empty string, or text with no item-shaped and no total-shaped
\* substring, fed to the scan parser or to the email body parser yields
\* storeName 'Unknown Store', an empty item list, totalAmount 0.0 and
\* taxAmount 0.0.
C11_NoiseGivesDefaults ==
    (pc \in {"parse_receipt_text", "_parse_receipt_from_body"} /\ NoAmount(text)) =>
        Defaults(result, "Unknown Store")

\* C11, amended: such a text yields an empty item list, totalAmount 0.0,
\* taxAmount 0.0 and the store name store identification gives: 'Unknown Store'
\* when no store pattern occurs in the text (email: in subject, sender and
\* body), the first store of the table that occurs otherwise.
C11_NoiseGivesDefaultsButStore ==
    /\ (pc = "parse_receipt_text" /\ NoAmount(text)) =>
          Defaults(result, C6_Expected(scan_store_patterns, C6_ScanStores, text))
    /\ (pc = "_parse_receipt_from_body" /\ NoAmount(text)) =>
          Defaults(result, C6_Expected(email_store_patterns, C6_EmailStores, Combined))

\* a non-empty body without amounts and without a store, parsed to the defaults
C11_Witness ==
    /\ pc = "_parse_receipt_from_body"
    /\ text # ""
    /\ NoAmount(text)
    /\ StoreHits(email_store_patterns, Combined) = {}
    /\ Defaults(result, "Unknown Store")

----------------------------------------------------------------------------
(* The shared processor objects called from concurrent requests *)

\* the most threads calling the shared objects at a time
MaxThreads == 2

Threads == 1..MaxThreads

SharedNames == {"ham", "Ice cream"}

SharedDocuments == {"WALMART\nBANANAS  1.99", "target\n2 x Milk @ $3.99 $9.00"}

\* the operations of the core and the arguments they are called with
Calls ==
    {[op |-> "categorize_item", arg |-> n] : n \in SharedNames}
      \cup {[op |-> "parse_receipt_text", arg |-> d] : d \in SharedDocuments}
      \cup {[op |-> "_parse_receipt_from_body", arg |-> d] : d \in SharedDocuments}
      \cup {[op |-> "get_all_categories", arg |-> ""]}

\* a method call: the attributes of self after it, and what it returned
After(self, v) == [self |-> self, value |-> v]

RECURSIVE CategoryLoopOn(_, _, _)
\* for category, data in self.categories.items(), over the table of self
CategoryLoopOn(table, item_lower, c) ==
    IF c > Len(table) THEN "Other"
    ELSE IF table[c].name = "Other" THEN CategoryLoopOn(table, item_lower, c + 1)
    ELSE IF KeywordLoop(table[c].keywords, item_lower, 1) THEN table[c].name
    ELSE CategoryLoopOn(table, item_lower, c + 1)

\* ItemCategorizer.categorize_item as a method of the shared object
ItemCategorizer_categorize_item(self, name) ==
    After(self, IF name = "" THEN "Other" ELSE CategoryLoopOn(self.categories, Lower(name), 1))

\* the table handed out itself, its keywords deleted in place
ItemCategorizer_get_all_categories_InPlace(self) ==
    After([self EXCEPT !.categories =
              [c \in 1..Len(@) |-> [name |-> @[c].name, keywords |-> <<>>]]],
          [c \in 1..Len(self.categories) |-> self.categories[c].name])

\* ItemCategorizer.get_all_categories: a new dict, one entry per category
ItemCategorizer_get_all_categories(self) ==
    After(self, [c \in 1..Len(self.categories) |-> self.categories[c].name])

\* ReceiptProcessor.parse_receipt_text as a method of the shared object
ReceiptProcessor_parse_receipt_text(self, t) ==
    After(self, Returned([parse_receipt_text(t).value EXCEPT
                             !.store_name = StoreLoop(self.store_patterns, Lower(t), 1)]))

\* the record of the body with the store looked up in the table of self
email_record_on(self, body, parsed) ==
    IF parsed.raised # "" THEN parsed
    ELSE Returned([parsed.value EXCEPT
                      !.store_name = StoreLoop(self.store_patterns, Lower("  " \o body), 1)])

\* EmailReceiptParser._parse_receipt_from_body as a method of the shared object,
\* for an email without subject and sender
EmailReceiptParser_parse_receipt_from_body(self, body) ==
    After(self, email_record_on(self, body, parse_receipt_from_body(body, "", "")))

NoCall == [pc |-> "idle", op |-> "", arg |-> "", result |-> <<>>]

InitShared ==
    /\ pc = "ready"
    /\ NoName
    /\ NoDocument
    /\ result = Returned(<<>>)
    /\ processors = Processors0
    /\ requests = [t \in Threads |-> NoCall]
    /\ NoStorage

extraction == <<pc, item_name, category, cleaned, text, subject, sender, result>>

\* a request thread enters one of the operations
Enter(t) ==
    /\ requests[t].pc = "idle"
    /\ \E c \in Calls :
          requests' = [requests EXCEPT ![t] = [pc |-> "called", op |-> c.op,
                                               arg |-> c.arg, result |-> <<>>]]
    /\ UNCHANGED <<extraction, processors, storage>>

\* the call of thread t returns r.value and leaves self of the object as r.self
Return(t, object, r) ==
    /\ processors' = [processors EXCEPT ![object] = r.self]
    /\ requests' = [requests EXCEPT ![t].pc = "returned", ![t].result = r.value]
    /\ UNCHANGED <<extraction, storage>>

CallCategorizeItem(t) ==
    /\ requests[t].pc = "called" /\ requests[t].op = "categorize_item"
    /\ Return(t, "categorizer",
              ItemCategorizer_categorize_item(processors.categorizer, requests[t].arg))

CallGetAllCategories(t) ==
    /\ requests[t].pc = "called" /\ requests[t].op = "get_all_categories"
    /\ Return(t, "categorizer", ItemCategorizer_get_all_categories(processors.categorizer))

CallParseReceiptText(t) ==
    /\ requests[t].pc = "called" /\ requests[t].op = "parse_receipt_text"
    /\ Return(t, "receipt_processor",
              ReceiptProcessor_parse_receipt_text(processors.receipt_processor,
                                                  requests[t].arg))

CallParseReceiptFromBody(t) ==
    /\ requests[t].pc = "called" /\ requests[t].op = "_parse_receipt_from_body"
    /\ Return(t, "email_parser",
              EmailReceiptParser_parse_receipt_from_body(processors.email_parser,
                                                         requests[t].arg))

\* the thread is done with the value and free for the next call
Leave(t) ==
    /\ requests[t].pc = "returned"
    /\ requests' = [requests EXCEPT ![t] = NoCall]
    /\ UNCHANGED <<extraction, processors, storage>>

NextShared ==
    \E t \in Threads :
        \/ Enter(t)
        \/ CallCategorizeItem(t)
        \/ CallGetAllCategories(t)
        \/ CallParseReceiptText(t)
        \/ CallParseReceiptFromBody(t)
        \/ Leave(t)

SpecShared == InitShared /\ [][NextShared]_vars

\* what the operation yields for the argument on freshly built objects
FreshValue(op, arg) ==
    CASE op = "categorize_item" -> categorize_item(arg)
      [] op = "parse_receipt_text" -> parse_receipt_text(arg)
      [] op = "_parse_receipt_from_body" -> parse_receipt_from_body(arg, "", "")
      [] op = "get_all_categories" -> [c \in 1..Len(categories) |-> categories[c].name]

\* C12: no operation (parse_receipt_text, _parse_receipt_from_body,
\* categorize_item, get_all_categories) ever changes the category table or the
\* store tables, so whatever was processed before or is processed concurrently
\* by the same shared objects, the value a call returns is the one freshly
\* built objects return for its argument; categorize_item returns the same
\* category for the same name on every call.
C12_NoSharedMutableState ==
    /\ processors = Processors0
    /\ \A t \in Threads :
          requests[t].pc = "returned" =>
              requests[t].result = FreshValue(requests[t].op, requests[t].arg)

\* two threads that were handed the same category for the same name while the
\* tables are as built
C12_Witness ==
    /\ \A t \in Threads : requests[t].pc = "returned" /\ requests[t].op = "categorize_item"
    /\ requests[1].arg = requests[2].arg
    /\ requests[1].result = requests[2].result
    /\ requests[1].result = "Meat & Seafood"

----------------------------------------------------------------------------
(* One line handed to the two line-item extractors *)

LineQuantities == {"1", "2", "3"}

LineNames == {"Milk", "Ab", "Bread"}

LineUnitPrices == {"3.99", "1.00"}

LineTotals == {"7.98", "2.00"}

\* '<q> x <name> @ $<u> = $<t>'
QuantityUnitTotalLine(q, n, u, t) == q \o " x " \o n \o " @ $" \o u \o " = $" \o t

\* '<q> x <name> $<t>'
QuantityTotalLine(q, n, t) == q \o " x " \o n \o " $" \o t

LineSeparators == {" ", "  ", "  $"}

LineAmounts == {"0.00", "2.50", "499.99", "500.00", "500.01"}

\* '<name><separator><amount>'
TrailingPriceLine(n, sp, a) == n \o sp \o a

Lines ==
    {QuantityUnitTotalLine(q, n, u, t) :
        q \in LineQuantities, n \in LineNames, u \in LineUnitPrices, t \in LineTotals}
      \cup {QuantityTotalLine(q, n, t) :
              q \in LineQuantities, n \in LineNames, t \in LineTotals}
      \cup {TrailingPriceLine(n, sp, a) :
              n \in LineNames, sp \in LineSeparators, a \in LineAmounts}

InitLine ==
    /\ pc = "ready"
    /\ NoName
    /\ text \in Lines
    /\ subject = ""
    /\ sender = ""
    /\ result = Returned(<<>>)
    /\ NoServer

\* ReceiptProcessor._extract_items on the lines of the text
ExtractItems ==
    /\ pc = "ready"
    /\ pc' = "_extract_items"
    /\ result' = Returned(scan_extract_items(scan_lines(text)))
    /\ UNCHANGED <<item_name, category, cleaned, text, subject, sender>>
    /\ UNCHANGED server

\* EmailReceiptParser._extract_items_from_email on the body
ExtractItemsFromEmail ==
    /\ pc = "ready"
    /\ pc' = "_extract_items_from_email"
    /\ result' = email_extract_items(text)
    /\ UNCHANGED <<item_name, category, cleaned, text, subject, sender>>
    /\ UNCHANGED server

NextItems == ExtractItems \/ ExtractItemsFromEmail

SpecLine == InitLine /\ [][NextItems]_vars

\* the amounts a and b are the same number
SameAmount(a, b) == a.num * b.den = b.num * a.den

\* the call returned exactly one item, named as the normalized n, with the
\* quantity, unit price and total price given
OneItem(r, n, q, u, t) ==
    /\ r.raised = ""
    /\ Len(r.value) = 1
    /\ r.value[1].name = email_clean_item_name(n)
    /\ r.value[1].quantity = q
    /\ SameAmount(r.value[1].unit_price, u)
    /\ SameAmount(r.value[1].total_price, t)

\* C13: on the email path, a line '<q> x <name> @ $<u> = $<t>' (q a positive
\* integer, u and t amounts with two decimals) produces one item with quantity
\* q, unitPrice u, totalPrice t and a name derived from <name> only; a line
\* '<q> x <name> $<t>' produces one item with quantity q, totalPrice t and
\* unitPrice t / q.
C13_QuantityForms ==
    pc = "_extract_items_from_email" =>
        /\ \A q \in LineQuantities, n \in LineNames, u \in LineUnitPrices, t \in LineTotals :
              text = QuantityUnitTotalLine(q, n, u, t) =>
                  OneItem(result, n, ParseInt(q), ParseAmount(u), ParseAmount(t))
        /\ \A q \in LineQuantities, n \in LineNames, t \in LineTotals :
              text = QuantityTotalLine(q, n, t) =>
                  OneItem(result, n, ParseInt(q),
                          Amount(ParseAmount(t).num, ParseInt(q)), ParseAmount(t))

----------------------------------------------------------------------------
(* Claims about the order of the date patterns, under SpecDate *)

\* the substring the p-th date pattern matches in the lowercased text
DateStr(p) == Group(Search(date_patterns[p], Lower(text)), Lower(text), 1)

\* the date patterns that match the text
MatchingPatterns == {p \in 1..Len(date_patterns) : Search(date_patterns[p], Lower(text)).ok}

\* the formats the substring matched by the p-th pattern parses under
ParsingFormats(p) ==
    {f \in 1..Len(date_formats) : strptime(DateStr(p), date_formats[f]).raised = ""}

\* the substring of the p-th pattern parsed under the first format that parses it
FirstParse(p) == strptime(DateStr(p), date_formats[Min(ParsingFormats(p))]).value

\* C14: the date extractor decides on the first date pattern (in list order)
\* that matches the text: if the substring matched by that pattern parses
\* under none of the date formats, the result is the current time and no later
\* pattern is consulted; the current time is also the result when no pattern
\* matches.
C14_FirstMatchDecides ==
    pc = "_extract_date" =>
        result.value =
            IF MatchingPatterns = {} THEN Now
            ELSE IF ParsingFormats(Min(MatchingPatterns)) = {} THEN Now
            ELSE FirstParse(Min(MatchingPatterns))

\* the matching patterns whose substring parses under some format
ParsingPatterns == {p \in MatchingPatterns : ParsingFormats(p) # {}}

\* C14, amended: the patterns are consulted in list order; the result is the
\* substring of the first matching pattern whose substring parses under some
\* format, parsed under the first such format; a matching pattern whose
\* substring parses under none of the formats is passed over; the result is
\* the current time when no pattern matches or no matched substring parses.
C14_FirstParsingPatternDecides ==
    pc = "_extract_date" =>
        result.value =
            IF ParsingPatterns = {} THEN Now ELSE FirstParse(Min(ParsingPatterns))

\* the first matching pattern parses under no format and a later one gave the
\* date
C14_Witness ==
    /\ pc = "_extract_date"
    /\ MatchingPatterns # {}
    /\ ParsingFormats(Min(MatchingPatterns)) = {}
    /\ ParsingPatterns # {}
    /\ result.value = FirstParse(Min(ParsingPatterns))
    /\ result.value # Now

----------------------------------------------------------------------------
(* Claims about the trailing-price fallback, under SpecLine *)

\* the call returned one item of quantity 1 whose unit price and total price
\* are the amount a
OneItemPricedAt(r, a) ==
    /\ r.raised = ""
    /\ Len(r.value) = 1
    /\ r.value[1].quantity = 1
    /\ r.value[1].unit_price = a
    /\ r.value[1].total_price = a

NoItem(r) == r.raised = "" /\ r.value = <<>>

\* C15: for a non-noise line that does not match the explicit-quantity pattern
\* and ends in a currency-shaped amount, an item is produced if and only if
\* the name before the amount has more than 2 characters, the amount is
\* strictly greater than 0 and, on the email path only, the amount does not
\* exceed 500 (exactly 500.00 is accepted; the scan path has no ceiling); the
\* item has quantity 1.0 and unitPrice = totalPrice = the amount.
C15_TrailingPriceItem ==
    \A n \in LineNames, sp \in LineSeparators, a \in LineAmounts :
        text = TrailingPriceLine(n, sp, a) =>
            /\ pc = "_extract_items" =>
                  IF Len(n) > 2 /\ ParseAmount(a).num > 0
                  THEN OneItemPricedAt(result, ParseAmount(a))
                  ELSE NoItem(result)
            /\ pc = "_extract_items_from_email" =>
                  IF Len(n) > 2 /\ ParseAmount(a).num > 0 /\ ParseAmount(a).num <= 500 * 100
                  THEN OneItemPricedAt(result, ParseAmount(a))
                  ELSE NoItem(result)

----------------------------------------------------------------------------
(* Several lines handed to the two line-item extractors *)

\* the most lines of a text handed to the item extractors
MaxItemLines == 2

ItemLines == {"BANANAS  1.99", "MILK 2 @ 3.99", "3 x Eggs $2.00", "TOTAL  9.97",
              "Cash back  5.00", "Shipping  4.99", "hello", "0 x Milk 3.99"}

ItemTexts == Joined(ItemLines, {"\n"}, MaxItemLines)

InitItems ==
    /\ pc = "ready"
    /\ NoName
    /\ text \in ItemTexts
    /\ subject = ""
    /\ sender = ""
    /\ result = Returned(<<>>)
    /\ NoServer

SpecItems == InitItems /\ [][NextItems]_vars

RECURSIVE JoinLines(_)
\* '\n'.join(lines)
JoinLines(lines) ==
    IF lines = <<>> THEN ""
    ELSE IF Len(lines) = 1 THEN lines[1]
    ELSE lines[1] \o "\n" \o JoinLines(Tail(lines))

\* the lines the extractor that was called went through
LinesGiven == IF pc = "_extract_items" THEN scan_lines(text) ELSE SplitLines(text)

\* what the extractor that was called yields for the lines
ItemsOf(lines) ==
    IF pc = "_extract_items" THEN Returned(scan_extract_items(lines))
    ELSE email_extract_items(JoinLines(lines))

IsPrefix(a, b) == Len(a) <= Len(b) /\ SubSeq(b, 1, Len(a)) = a

Extracted == pc \in {"_extract_items", "_extract_items_from_email"} /\ result.raised = ""

\* the items of the lines up to one line and up to the next, within all items
OneMoreLine(before, next, all) ==
    /\ before.raised = "" /\ next.raised = ""
    /\ IsPrefix(before.value, next.value)
    /\ Len(next.value) <= Len(before.value) + 1
    /\ IsPrefix(next.value, all)

\* C16: each line contributes at most one item and items appear in the order
\* of the lines that produced them: the item list has at most as many entries
\* as there are lines, and the items extracted from a prefix of the lines are
\* a prefix of the items extracted from all the lines.
C16_OneItemPerLineInOrder ==
    Extracted =>
        /\ Len(result.value) <= Len(LinesGiven)
        /\ \A k \in 0..(Len(LinesGiven) - 1) :
              OneMoreLine(ItemsOf(SubSeq(LinesGiven, 1, k)),
                          ItemsOf(SubSeq(LinesGiven, 1, k + 1)), result.value)

\* two lines that gave one item each, the item of the first line first
C16_Witness ==
    /\ pc = "_extract_items_from_email"
    /\ result.raised = ""
    /\ Len(LinesGiven) = 2
    /\ Len(result.value) = 2
    /\ LinesGiven[1] # LinesGiven[2]
    /\ ItemsOf(<<LinesGiven[1]>>).value = <<result.value[1]>>

C17_ScanSkips == {"total", "subtotal", "tax", "balance", "payment", "change", "visa",
                  "mastercard", "cash", "credit", "debit", "***", "---", "thank you",
                  "receipt", "store", "date"}

C17_EmailSkips == {"order summary", "subtotal", "total", "tax", "shipping", "delivery",
                   "payment", "thank you", "questions", "customer service", "***",
                   "---", "visit us", "follow us"}

\* the lowercased line contains a substring of the skip-list of the path
Skipped(line) ==
    \E skip \in (IF pc = "_extract_items" THEN C17_ScanSkips ELSE C17_EmailSkips) :
        Contains(skip, Lower(line))

\* the lines without those of lines[m], lines[m + 1], ... that are skipped
RECURSIVE KeptFrom(_, _)
KeptFrom(lines, m) ==
    IF m > Len(lines) THEN <<>>
    ELSE IF Skipped(lines[m]) THEN KeptFrom(lines, m + 1)
    ELSE <<lines[m]>> \o KeptFrom(lines, m + 1)

\* C17: a line whose lowercased text contains any substring of the path's
\* skip-list never produces an item, even when it also matches an item
\* pattern; inserting or removing such lines leaves the extracted item list
\* unchanged.
C17_SkippedLinesIgnored ==
    pc \in {"_extract_items", "_extract_items_from_email"} =>
        /\ result = ItemsOf(KeptFrom(LinesGiven, 1))
        /\ (\A l \in 1..Len(LinesGiven) : Skipped(LinesGiven[l])) => result = Returned(<<>>)

\* a priced line of the skip-list next to an item line: one item only
C17_Witness ==
    /\ pc = "_extract_items"
    /\ Len(LinesGiven) = 2
    /\ LinesGiven[2] = "TOTAL  9.97"
    /\ ~Skipped(LinesGiven[1])
    /\ Len(result.value) = 1

----------------------------------------------------------------------------
(* The upload and delete handlers (app/__init__.py) and the database *)

\* the most requests handled at a time
MaxHandlers == 2

Handlers == 1..MaxHandlers

\* the most seconds the clock advances
MaxClock == 1

\* the file names sent; "" is a part without a file name
FileNames == {"", "r.eml", "../r.eml"}

\* the bytes sent: two readable documents and an unreadable one
Contents == {"A", "B", "?"}

\* werkzeug's secure_filename: the path separators and the leading dots go
secure_filename(name) ==
    IF Len(name) >= 3 /\ SubSeq(name, 1, 3) = "../" THEN SubSeq(name, 4, Len(name))
    ELSE name

\* name.endswith(suffix)
EndsWith(name, suffix) ==
    Len(name) >= Len(suffix) /\ SubSeq(name, Len(name) - Len(suffix) + 1, Len(name)) = suffix

\* os.path.join(UPLOAD_FOLDER, folder, f"{timestamp}_{filename}"), the timestamp
\* having the granularity of a second
FilePath(folder, seconds, name) == <<folder, seconds, secure_filename(name)>>

\* process_image / parse_eml_file on the bytes read: the number of items of
\* the receipt, or ValueError for bytes that cannot be read
process(data) ==
    IF data = "?" THEN Raised("ValueError")
    ELSE Returned(IF data = "A" THEN 1 ELSE 2)

\* the id SQLite gives the next receipt row: one more than the largest
NextId(d) ==
    1 + (CHOOSE m \in {0} \cup {r.id : r \in d.receipts} :
            \A r \in d.receipts : r.id <= m)

\* db.session.add(receipt); db.session.flush(): handler h opens the write
\* transaction and the receipt row, still uncommitted, gets its id
flush_receipt(d, h, n) ==
    [d EXCEPT !.writer = h,
              !.pending.receipts = {[id |-> NextId(d), request |-> h, items |-> n]}]

\* db.session.add(item) for each of the n items of the receipt
add_items(d, h, id, n) ==
    [d EXCEPT !.pending.items = {[receipt_id |-> id, request |-> h, n |-> k] : k \in 1..n}]

\* db.session.commit(): the rows of the transaction become stored together
commit(d) ==
    [receipts |-> d.receipts \cup d.pending.receipts,
     items    |-> d.items \cup d.pending.items,
     writer   |-> 0,
     pending  |-> NoRows]

\* a rollback that leaves the flushed receipt row stored
rollback_KeepsFlushed(d, h) ==
    IF d.writer = h
    THEN [d EXCEPT !.receipts = @ \cup d.pending.receipts, !.writer = 0, !.pending = NoRows]
    ELSE d

\* db.session.rollback(): the rows of the transaction of h are dropped
rollback(d, h) ==
    IF d.writer = h THEN [d EXCEPT !.writer = 0, !.pending = NoRows] ELSE d

\* a delete of the receipt row alone
delete_cascade_ReceiptOnly(d, id) ==
    [d EXCEPT !.receipts = {r \in @ : r.id # id}]

\* db.session.delete(receipt); db.session.commit() with
\* cascade='all, delete-orphan' on Receipt.items
delete_cascade(d, id) ==
    [d EXCEPT !.receipts = {r \in @ : r.id # id},
              !.items = {i \in @ : i.receipt_id # id}]

NoRequest == [pc |-> "idle", kind |-> "", bytes |-> "", filepath |-> <<>>,
              data |-> "", receipt_id |-> 0, status |-> 0, error |-> ""]

\* the requests are numbered in the order of their arrival
Arrives(h) ==
    /\ handlers[h].pc = "idle"
    /\ \A g \in Handlers : g < h => handlers[g].pc # "idle"

InitServer ==
    /\ pc = "ready"
    /\ NoName
    /\ NoDocument
    /\ result = Returned(<<>>)
    /\ processors = Processors0
    /\ requests = <<>>
    /\ uploads = <<>>
    /\ clock = 0
    /\ db = Database0
    /\ handlers = [h \in Handlers |-> NoRequest]

core == <<extraction, processors, requests>>

\* the response of a handler: the status and the error of the body; the
\* locals of the handler are gone with its return
Response(request, status, error) ==
    [NoRequest EXCEPT !.pc = "responded", !.kind = request.kind,
                      !.receipt_id = request.receipt_id,
                      !.status = status, !.error = error]

\* the handler answers
Respond(h, status, error) ==
    handlers' = [handlers EXCEPT ![h] = Response(handlers[h], status, error)]

\* a POST arrives: the checks of the file part, then the path to save under
Receive(h, kind, folder, suffix) ==
    /\ Arrives(h)
    /\ \E name \in FileNames, bytes \in Contents :
          handlers' = [handlers EXCEPT ![h] =
              IF name = "" \/ ~EndsWith(name, suffix)
              THEN Response([NoRequest EXCEPT !.kind = kind], 400, "No file")
              ELSE [NoRequest EXCEPT !.pc = "named", !.kind = kind, !.bytes = bytes,
                                     !.filepath = FilePath(folder, clock, name)]]
    /\ UNCHANGED <<core, uploads, clock, db>>

\* upload_scanned_receipt up to the path
ReceiveScan(h) == Receive(h, "scan", "receipts", "")

\* upload_email_receipt up to the path: only .eml files
ReceiveEmail(h) == Receive(h, "email", "emails", ".eml")

\* file.save(filepath)
SaveFile(h) ==
    /\ handlers[h].pc = "named"
    /\ uploads' = (handlers[h].filepath :> handlers[h].bytes) @@ uploads
    /\ handlers' = [handlers EXCEPT ![h].pc = "saved"]
    /\ UNCHANGED <<core, clock, db>>

\* with open(filepath, 'rb') as f: data = f.read(), then process_image or
\* parse_eml_file, whose ValueError gives the response 500
ProcessFile(h) ==
    /\ handlers[h].pc = "saved"
    /\ IF process(uploads[handlers[h].filepath]).raised = ""
       THEN handlers' = [handlers EXCEPT ![h].data = uploads[handlers[h].filepath],
                                         ![h].pc = "parsed"]
       ELSE Respond(h, 500, process(uploads[handlers[h].filepath]).raised)
    /\ UNCHANGED <<core, uploads, clock, db>>

\* save_receipt_to_db up to db.session.flush(), once the database is free
FlushReceipt(h) ==
    /\ handlers[h].pc = "parsed"
    /\ db.writer = 0
    /\ db' = flush_receipt(db, h, process(handlers[h].data).value)
    /\ handlers' = [handlers EXCEPT ![h].pc = "flushed", ![h].receipt_id = NextId(db)]
    /\ UNCHANGED <<core, uploads, clock>>

\* save_receipt_to_db from the loop over the items to db.session.commit()
CommitReceipt(h) ==
    /\ handlers[h].pc = "flushed"
    /\ db' = commit(add_items(db, h, handlers[h].receipt_id,
                              process(handlers[h].data).value))
    /\ Respond(h, 201, "")
    /\ UNCHANGED <<core, uploads, clock>>

\* save_receipt_to_db raising at the flush, in the loop or at the commit:
\* db.session.rollback(), raise, and the response 500
SaveFails(h) ==
    /\ handlers[h].pc \in {"parsed", "flushed"}
    /\ db' = rollback(db, h)
    /\ Respond(h, 500, "Exception")
    /\ UNCHANGED <<core, uploads, clock>>

\* delete_receipt: Receipt.query.get_or_404(receipt_id)
ReceiveDelete(h) ==
    /\ Arrives(h)
    /\ \E id \in Handlers :
          handlers' = [handlers EXCEPT ![h] =
              IF \E r \in db.receipts : r.id = id
              THEN [NoRequest EXCEPT !.pc = "loaded", !.kind = "delete", !.receipt_id = id]
              ELSE Response([NoRequest EXCEPT !.kind = "delete", !.receipt_id = id],
                            500, "NotFound")]
    /\ UNCHANGED <<core, uploads, clock, db>>

\* delete_receipt: db.session.delete(receipt); db.session.commit(), once the
\* database is free; a row that is gone by then raises, and is rolled back
CommitDelete(h) ==
    /\ handlers[h].pc = "loaded"
    /\ db.writer = 0
    /\ IF \E r \in db.receipts : r.id = handlers[h].receipt_id
       THEN db' = delete_cascade(db, handlers[h].receipt_id) /\ Respond(h, 200, "")
       ELSE db' = rollback(db, h) /\ Respond(h, 500, "Exception")
    /\ UNCHANGED <<core, uploads, clock>>

\* delete_receipt raising: db.session.rollback() and the response 500
DeleteFails(h) ==
    /\ handlers[h].pc = "loaded"
    /\ db' = rollback(db, h)
    /\ Respond(h, 500, "Exception")
    /\ UNCHANGED <<core, uploads, clock>>

\* a second passes
Tick ==
    /\ clock < MaxClock
    /\ clock' = clock + 1
    /\ UNCHANGED <<core, uploads, db, handlers>>

NextServer ==
    \/ Tick
    \/ \E h \in Handlers :
          \/ ReceiveScan(h)
          \/ ReceiveEmail(h)
          \/ SaveFile(h)
          \/ ProcessFile(h)
          \/ FlushReceipt(h)
          \/ CommitReceipt(h)
          \/ SaveFails(h)
          \/ ReceiveDelete(h)
          \/ CommitDelete(h)
          \/ DeleteFails(h)

SpecServer == InitServer /\ [][NextServer]_vars

\* C18: two upload requests handled concurrently never interfere: each
\* request processes the bytes of the file it received itself, even when both
\* uploads carry the same file name and arrive within the same second.
C18_ProcessesOwnBytes ==
    \A h \in Handlers :
        (handlers[h].kind \in {"scan", "email"} /\ handlers[h].data # "") =>
            handlers[h].data = handlers[h].bytes

\* the stored items of the receipt with the id
ItemsOfReceipt(id) == {i \in db.items : i.receipt_id = id}

RowsOf(h) == {r \in db.receipts \cup db.items : r.request = h}

\* C20: save_receipt_to_db is all-or-nothing: a stored receipt is stored
\* with every one of its items, and an upload that failed, after the flush of
\* the receipt row included, or whose document cannot be parsed, has no row
\* in the database and holds no open transaction.
C20_AllOrNothing ==
    /\ \A r \in db.receipts :
          {i.n : i \in {j \in ItemsOfReceipt(r.id) : j.request = r.request}} = 1..r.items
    /\ \A h \in Handlers :
          (handlers[h].kind \in {"scan", "email"} /\ handlers[h].status \in {400, 500}) =>
              (RowsOf(h) = {} /\ db.writer # h)

\* one upload failed after its receipt row was flushed, one could not be parsed
C20_Witness ==
    \E g \in Handlers, h \in Handlers :
        /\ handlers[g].status = 500
        /\ handlers[g].receipt_id # 0
        /\ handlers[g].kind \in {"scan", "email"}
        /\ handlers[h].status = 500
        /\ handlers[h].error = "ValueError"

----------------------------------------------------------------------------
(* C21: the names of the emitted items *)

\* the name parts of the lines: words, digits alone, punctuation alone, a
\* number with a unit
NameParts == {"Milk", "Green Tea", "123", "12345", "!!!", "...", "100 g", "Ab-1"}

NameAmounts == {"2.50", "3.99"}

\* "<name> <quantity> @ <unit price>", the quantity form of the scans
QuantityAtLine(n, q, u) == n \o " " \o q \o " @ " \o u

NameLines ==
    {TrailingPriceLine(n, sp, a) : n \in NameParts, sp \in LineSeparators, a \in NameAmounts}
      \cup {QuantityTotalLine(q, n, t) : q \in {"2"}, n \in NameParts, t \in NameAmounts}
      \cup {QuantityAtLine(n, q, u) : n \in NameParts, q \in {"2"}, u \in NameAmounts}

InitNames ==
    /\ pc = "ready"
    /\ NoName
    /\ text \in NameLines
    /\ subject = ""
    /\ sender = ""
    /\ result = Returned(<<>>)
    /\ NoServer

SpecNames == InitNames /\ [][NextItems]_vars

\* C21: every item emitted by either line-item extractor has a non-empty
\* name after normalization, for any input line, the lines whose name part
\* consists only of digits or only of punctuation included.
C21_NonEmptyNames ==
    Extracted => \A k \in 1..Len(result.value) : result.value[k].name # ""

----------------------------------------------------------------------------
(* C22: the unit suffix of the email names, under SpecClean *)

C22_Units == {"ea", "each", "lb", "oz", "kg", "g"}

\* the name with its runs of whitespace collapsed and its leading digits
\* gone, the part of the normalizer before the suffix is looked at
BaseName(name) ==
    Strip(Sub(<<BOS, Plus(Digit), Star(Space)>>, "", Sub(<<Plus(Space)>>, " ", name)))

\* the index of the last space of s at or before i, 0 when there is none
RECURSIVE LastSpace(_, _)
LastSpace(s, i) ==
    IF i = 0 THEN 0
    ELSE IF CharAt(s, i) = " " THEN i
    ELSE LastSpace(s, i - 1)

\* the last token of the name b, whose last space is at sp, and what is before
LastToken(b, sp) == SubSeq(b, sp + 1, Len(b))

BeforeLastToken(b, sp) == SubSeq(b, 1, sp - 1)

\* out is b with its last token removed when, and only when, that token is a
\* unit, title-cased
UnitTokenRemoved(b, sp, out) ==
    sp > 0 =>
        IF Lower(LastToken(b, sp)) \in C22_Units
        THEN out = Title(Strip(BeforeLastToken(b, sp)))
        ELSE out = Title(b)

\* C22: the email name normalizer removes a trailing unit suffix (ea, each,
\* lb, oz, kg, g) only when it stands as a separate last token of the name; a
\* name whose last word merely ends in those letters ('Large Egg',
\* 'Paper Bag', 'Green Tea') keeps that word intact.
C22_UnitSuffixIsSeparateToken ==
    cleaned.email # <<>> =>
        UnitTokenRemoved(BaseName(item_name),
                         LastSpace(BaseName(item_name), Len(BaseName(item_name))),
                         cleaned.email[1])

----------------------------------------------------------------------------
(* C23: what an upload that ends in an error leaves behind, under SpecServer *)

\* the upload request h answers with an error in this step
AnswersError(h) ==
    /\ handlers[h].pc # "responded"
    /\ handlers'[h].pc = "responded"
    /\ handlers'[h].kind \in {"scan", "email"}
    /\ handlers'[h].status \in {400, 500}

\* C23: an upload request that ends in an error response (unreadable image
\* or email, or a persistence failure) leaves the stored state as it was
\* before the request: no receipt or item rows and no file left in the
\* upload folder.
C23_ErrorLeavesNothing ==
    [][\A h \in Handlers :
          AnswersError(h) =>
              /\ \A r \in db'.receipts \cup db'.items : r.request # h
              /\ handlers[h].filepath \notin DOMAIN uploads']_vars

====
